---- MODULE Spec2Model ----
(***************************************************************************)
(* Live feed connection lifecycle of the trading simulator frontend.       *)
(*                                                                         *)
(* One view instance is modelled: either the aggregate ticker table        *)
(* (CoinMarketTable) or the per-symbol detail view (CurrencyDetailPage).   *)
(* The state is the component's React state and refs, the WebSocket        *)
(* objects it has created (they keep their handlers after the component    *)
(* drops its reference), the timers it has set with window.setTimeout,     *)
(* and the document visibility.  Every action is one task of the browser   *)
(* event loop: an effect run, an effect cleanup, a transport event, a      *)
(* timer callback or a visibilitychange notification.                      *)
(***************************************************************************)
EXTENDS Integers, Sequences, FiniteSets, TLC

\* ---------------------------------------------------------------- bounds
MaxSockets == 3      \* WebSocket objects constructed over a behaviour
MaxTimers  == 2      \* window.setTimeout calls over a behaviour
MaxRuns    == 2      \* runs of the useEffect body (mount + symbol changes)
MaxRequests == 1     \* page requests sent by the user over a behaviour

\* ------------------------------------------------------ program constants
ReconnectDelay == 5000
InitialPage    == 1
InitialPerPage == 30
DefaultSymbol  == "BTCUSDT"

\* Granularity of the modelled clock: a delay is two ticks.
TickMs == ReconnectDelay \div 2

\* "table" is CoinMarketTable, "detail" the CurrencyDetailPage that sorts its
\* batches, "detailPage" the CurrencyDetailPage of CurrencyDetailPage.tsx.
Kinds      == {"table", "detail", "detailPage"}
Symbols    == {"BTCUSDT", "ETHUSDT"}
NoSymbol   == "-"
ReadyStates == {"CONNECTING", "OPEN", "CLOSING", "CLOSED"}

VARIABLES
    kind,                 \* which component this instance is
    phase,                \* "init" (rendered, effect not run), "mounted", "unmounted"
    symbol,               \* detail view: the route parameter of the latest render
    run,                  \* number of the latest run of the effect body
    visibility,           \* document.visibilityState
    sockets,              \* every WebSocket constructed so far, by creation order
    timers,               \* every timer set so far, by creation order
    wsRef,                \* wsRef.current: 0 is null, else an index of sockets
    reconnectTimeoutRef,  \* reconnectTimeoutRef.current: 0 is null, else an index of timers
    isUnmounting,         \* isUnmounting.current
    isConnected,          \* React state
    error,                \* React state, "" is null
    paginatedData,        \* React state of the table
    data,                 \* React state of the detail view
    dispatch,             \* socket whose close event follows its error event in the same task, or 0
    cancelled,            \* history: runs of the effect whose cleanup ran while a timer was pending
    hiddenClose,          \* history: "armed" once a socket closed uncleanly while the tab is
                          \* hidden, "resumed" from the next change to visible, else "none"
    lastGood,             \* history: the last payload that parsed (detail views: and was
                          \* not empty) among the messages delivered to the mounted view
    dropped,              \* history: page of the last page request made while the channel
                          \* was not open, 0 if none since the last request that was sent
    malformed             \* history: the last step handed onmessage a message that does not parse

vars == <<kind, phase, symbol, run, visibility, sockets, timers, wsRef,
          reconnectTimeoutRef, isUnmounting, isConnected, error,
          paginatedData, data, dispatch, cancelled, hiddenClose,
          lastGood, dropped, malformed>>

\* ---------------------------------------------------------------- values
InitialPaginatedData ==
    [data |-> <<>>, total |-> 0, page |-> InitialPage, per_page |-> InitialPerPage]

ErrTransport(k) ==
    IF k \in {"table", "detailPage"} THEN "WebSocket error occurred"
    ELSE "WebSocket error occurred. Make sure the backend is running."

ErrConstruct(k) ==
    IF k \in {"table", "detailPage"} THEN "Failed to connect to WebSocket"
    ELSE "Failed to connect to WebSocket. Make sure the backend is running at 127.0.0.1:8080."

\* The connection target: fixed for the table, symbol-scoped for the detail view.
Endpoint(k, sym) ==
    IF k = "table" THEN <<"ws://127.0.0.1:8080">>
    ELSE <<"ws://127.0.0.1:8080/currency/", sym>>

\* A freshly constructed WebSocket.  sym and run identify the closure
\* (the effect run) whose connectWebSocket built it and whose handlers it holds.
NewSocket(k, sym, r) ==
    [readyState |-> "CONNECTING", url |-> Endpoint(k, sym), sym |-> sym,
     run |-> r, established |-> FALSE, wasClean |-> FALSE, sent |-> <<>>]

\* A timer set by window.setTimeout(connectWebSocket, delay) from the
\* closure of effect run r.
NewTimer(sym, r, delay) ==
    [state |-> "pending", remaining |-> delay, sym |-> sym, run |-> r]

\* The controller state that connect, cleanup and the handlers read and write.
Cur ==
    [sockets |-> sockets, timers |-> timers, wsRef |-> wsRef,
     reconnectTimeoutRef |-> reconnectTimeoutRef, isUnmounting |-> isUnmounting,
     isConnected |-> isConnected, error |-> error]

\* ------------------------------------------------------ platform functions
\* WebSocket.close(): starts closing a CONNECTING or OPEN socket, no-op otherwise.
WsClose(s) ==
    IF s.readyState \in {"CONNECTING", "OPEN"}
    THEN [s EXCEPT !.readyState = "CLOSING"]
    ELSE s

\* window.clearTimeout(id): cancels the timer if it is still pending.
ClearTimeout(ts, id) ==
    IF id # 0 /\ ts[id].state = "pending"
    THEN [ts EXCEPT ![id] = [@ EXCEPT !.state = "cleared", !.remaining = 0]]
    ELSE ts

\* ------------------------------------------------------------ connect
\* A connect that drops the reference to the previous channel without
\* closing it.
connectWebSocket_keepsPrevious(c, sym, r, throws) ==
    IF c.isUnmounting \/ (c.wsRef # 0 /\ c.sockets[c.wsRef].readyState = "OPEN")
    THEN c
    ELSE LET c1 == [c EXCEPT !.wsRef = 0]
         IN  IF throws
             THEN [c1 EXCEPT !.error = ErrConstruct(kind), !.isConnected = FALSE]
             ELSE [c1 EXCEPT !.sockets = Append(@, NewSocket(kind, sym, r)),
                             !.wsRef = Len(c1.sockets) + 1]

\* connectWebSocket of the closure (sym, r); throws says whether the
\* WebSocket constructor throws.
connectWebSocket(c, sym, r, throws) ==
    IF c.isUnmounting \/ (c.wsRef # 0 /\ c.sockets[c.wsRef].readyState = "OPEN")
    THEN c
    ELSE LET c1 == IF c.wsRef # 0
                   THEN [c EXCEPT !.sockets[c.wsRef] = WsClose(@), !.wsRef = 0]
                   ELSE c
         IN  IF throws
             THEN [c1 EXCEPT !.error = ErrConstruct(kind), !.isConnected = FALSE]
             ELSE [c1 EXCEPT !.sockets = Append(@, NewSocket(kind, sym, r)),
                             !.wsRef = Len(c1.sockets) + 1]

\* The cleanup function returned by the effect.
cleanup(c) ==
    LET c1 == [c EXCEPT !.isUnmounting = TRUE,
                        !.timers = ClearTimeout(@, c.reconnectTimeoutRef)]
    IN  IF c1.wsRef # 0
        THEN [c1 EXCEPT !.sockets[c1.wsRef] = WsClose(@), !.wsRef = 0]
        ELSE c1

\* ------------------------------------------------------------ handlers
\* An open handler that leaves the error text alone.
onopen_keepsError(c, k) ==
    IF ~c.isUnmounting
    THEN LET c1 == [c EXCEPT !.isConnected = TRUE]
         IN  IF kind = "table"
             THEN [c1 EXCEPT !.sockets[k].sent =
                       Append(@, [page |-> InitialPaginatedData.page,
                                  per_page |-> InitialPaginatedData.per_page])]
             ELSE c1
    ELSE c

\* ws.onopen of socket k (its readyState is already OPEN).
onopen(c, k) ==
    IF ~c.isUnmounting
    THEN LET c1 == [c EXCEPT !.isConnected = TRUE, !.error = ""]
         IN  IF kind = "table"
             THEN [c1 EXCEPT !.sockets[k].sent =
                       Append(@, [page |-> InitialPaginatedData.page,
                                  per_page |-> InitialPaginatedData.per_page])]
             ELSE c1
    ELSE c

\* An error handler that sets the retry timer itself.
onerror_retries(c, k) ==
    IF ~c.isUnmounting
    THEN [c EXCEPT !.error = ErrTransport(kind), !.isConnected = FALSE,
                   !.timers = Append(@, NewTimer(symbol, run, ReconnectDelay)),
                   !.reconnectTimeoutRef = Len(c.timers) + 1]
    ELSE c

\* ws.onerror of socket k.
onerror(c, k) ==
    IF ~c.isUnmounting
    THEN [c EXCEPT !.error = ErrTransport(kind), !.isConnected = FALSE]
    ELSE c

\* Variants of ws.onclose with one slip each, used to test that the
\* properties below depend on the handler.
\* onclose that does not look at document.visibilityState.
onclose_ignoresVisibility(c, k, wasClean) ==
    IF ~c.isUnmounting
    THEN LET c1 == [c EXCEPT !.isConnected = FALSE]
         IN  IF ~wasClean
             THEN [c1 EXCEPT !.timers = Append(@, NewTimer(c.sockets[k].sym,
                                                           c.sockets[k].run,
                                                           ReconnectDelay)),
                             !.reconnectTimeoutRef = Len(c1.timers) + 1]
             ELSE c1
    ELSE c

\* onclose whose delay grows with the number of timers set so far.
onclose_backoff(c, k, wasClean) ==
    IF ~c.isUnmounting
    THEN LET c1 == [c EXCEPT !.isConnected = FALSE]
         IN  IF ~wasClean /\ visibility # "hidden"
             THEN [c1 EXCEPT !.timers = Append(@, NewTimer(c.sockets[k].sym,
                                                           c.sockets[k].run,
                                                           ReconnectDelay * (Len(c.timers) + 1))),
                             !.reconnectTimeoutRef = Len(c1.timers) + 1]
             ELSE c1
    ELSE c

\* onclose that does not look at event.wasClean.
onclose_ignoresWasClean(c, k, wasClean) ==
    IF ~c.isUnmounting
    THEN LET c1 == [c EXCEPT !.isConnected = FALSE]
         IN  IF visibility # "hidden"
             THEN [c1 EXCEPT !.timers = Append(@, NewTimer(c.sockets[k].sym,
                                                           c.sockets[k].run,
                                                           ReconnectDelay)),
                             !.reconnectTimeoutRef = Len(c1.timers) + 1]
             ELSE c1
    ELSE c

\* ws.onclose of socket k with event.wasClean = wasClean.
onclose(c, k, wasClean) ==
    IF ~c.isUnmounting
    THEN LET c1 == [c EXCEPT !.isConnected = FALSE]
         IN  IF ~wasClean /\ visibility # "hidden"
             THEN [c1 EXCEPT !.timers = Append(@, NewTimer(c.sockets[k].sym,
                                                           c.sockets[k].run,
                                                           ReconnectDelay)),
                             !.reconnectTimeoutRef = Len(c1.timers) + 1]
             ELSE c1
    ELSE c

\* ------------------------------------------------------ inbound messages
Candle(t, sym) == [event_time |-> t, symbol |-> sym]
Ticker(sym)    == [symbol |-> sym]

\* What the server may push on a socket: text that parses, or garbage.
Json(v)   == [ok |-> TRUE, value |-> v]
Garbage   == [ok |-> FALSE, value |-> <<>>]

TablePayloads ==
    { [data |-> <<Ticker("BTCUSDT")>>, total |-> 60, page |-> 1, per_page |-> 30],
      [data |-> <<Ticker("ETHUSDT")>>, total |-> 40, page |-> 2, per_page |-> 20] }

CandleBatches(sym) ==
    { <<>>, <<Candle(2, sym), Candle(1, sym)>>, <<Candle(3, sym)>> }

RawMessages(s) ==
    {Garbage} \cup
    (IF kind = "table" THEN {Json(p) : p \in TablePayloads}
     ELSE {Json(b) : b \in CandleBatches(s.sym)})

\* Insertion of a candle into a series sorted ascending by event_time
\* (Array.prototype.sort is stable).
RECURSIVE InsertSorted(_, _)
InsertSorted(x, s) ==
    IF s = <<>> THEN <<x>>
    ELSE IF x.event_time < Head(s).event_time THEN <<x>> \o s
    ELSE <<Head(s)>> \o InsertSorted(x, Tail(s))

RECURSIVE SortByEventTime(_)
SortByEventTime(s) ==
    IF s = <<>> THEN <<>>
    ELSE InsertSorted(s[Len(s)], SortByEventTime(SubSeq(s, 1, Len(s) - 1)))

\* A handler that merges the payload into the previous state instead of
\* replacing it.
onmessageTable_merge(pd, raw) ==
    IF ~isUnmounting /\ raw.ok THEN [raw.value EXCEPT !.page = pd.page] ELSE pd

\* ws.onmessage of the table: the new value of paginatedData.
onmessageTable(pd, raw) ==
    IF ~isUnmounting /\ raw.ok THEN raw.value ELSE pd

\* A handler that clears the series when the payload does not parse.
onmessageDetail_clearsOnGarbage(d, raw) ==
    IF isUnmounting THEN d
    ELSE IF ~raw.ok THEN <<>>
    ELSE IF Len(raw.value) > 0 THEN SortByEventTime(raw.value)
    ELSE d

\* ws.onmessage of the detail view: the new value of data.
onmessageDetail(d, raw) ==
    IF ~isUnmounting /\ raw.ok /\ Len(raw.value) > 0
    THEN SortByEventTime(raw.value)
    ELSE d

\* ws.onmessage of the detail view of CurrencyDetailPage.tsx: the new value
\* of data.
onmessageDetailPage(d, raw) ==
    IF ~isUnmounting /\ raw.ok THEN raw.value ELSE d

\* ------------------------------------------------------------ page requests
\* Number of page requests the user has sent: every message of a socket
\* after its first, which is the one sent by onopen.
RECURSIVE RequestsSent(_)
RequestsSent(ss) ==
    IF ss = <<>> THEN 0
    ELSE (IF Len(Head(ss).sent) > 1 THEN Len(Head(ss).sent) - 1 ELSE 0)
         + RequestsSent(Tail(ss))

\* Math.ceil(paginatedData.total / paginatedData.per_page), the number of
\* pages the Pagination control offers.
totalPages(pd) == (pd.total + pd.per_page - 1) \div pd.per_page

\* A handler that asks for the page size of the first render.
handlePageChange_initialPerPage(c, newPage) ==
    IF c.wsRef # 0 /\ c.sockets[c.wsRef].readyState = "OPEN"
    THEN [c EXCEPT !.sockets[c.wsRef].sent =
              Append(@, [page |-> newPage, per_page |-> InitialPerPage])]
    ELSE c

\* A handler that hands the request to the referenced channel whatever its
\* state, to be sent when it opens.
handlePageChange_queues(c, newPage) ==
    IF c.wsRef # 0
    THEN [c EXCEPT !.sockets[c.wsRef].sent =
              Append(@, [page |-> newPage, per_page |-> paginatedData.per_page])]
    ELSE c

\* handlePageChange(newPage) of the table.
handlePageChange(c, newPage) ==
    IF c.wsRef # 0 /\ c.sockets[c.wsRef].readyState = "OPEN"
    THEN [c EXCEPT !.sockets[c.wsRef].sent =
              Append(@, [page |-> newPage, per_page |-> paginatedData.per_page])]
    ELSE c

\* ------------------------------------------------------------ frame helper
Commit(c) ==
    /\ sockets' = c.sockets
    /\ timers' = c.timers
    /\ wsRef' = c.wsRef
    /\ reconnectTimeoutRef' = c.reconnectTimeoutRef
    /\ isUnmounting' = c.isUnmounting
    /\ isConnected' = c.isConnected
    /\ error' = c.error

WithinBounds(c) ==
    /\ Len(c.sockets) <= MaxSockets
    /\ Len(c.timers) <= MaxTimers

PendingTimers == {t \in DOMAIN timers : timers[t].state = "pending"}

\* ------------------------------------------------------------ Init
Init ==
    /\ kind \in Kinds
    /\ phase = "init"
    /\ symbol = (IF kind = "table" THEN NoSymbol ELSE DefaultSymbol)
    /\ run = 0
    /\ visibility \in {"visible", "hidden"}
    /\ sockets = <<>>
    /\ timers = <<>>
    /\ wsRef = 0
    /\ reconnectTimeoutRef = 0
    /\ isUnmounting = FALSE
    /\ isConnected = FALSE
    /\ error = ""
    /\ paginatedData = InitialPaginatedData
    /\ data = <<>>
    /\ dispatch = 0
    /\ cancelled = {}
    /\ hiddenClose = "none"
    /\ lastGood = (IF kind = "table" THEN InitialPaginatedData ELSE <<>>)
    /\ dropped = 0
    /\ malformed = FALSE

\* ------------------------------------------------------------ actions
\* First run of the effect body after the first render.
MountT(throws) ==
    /\ phase = "init" /\ dispatch = 0
    /\ LET c == connectWebSocket([Cur EXCEPT !.isUnmounting = FALSE],
                                 symbol, 1, throws)
       IN  WithinBounds(c) /\ Commit(c)
    /\ phase' = "mounted"
    /\ run' = 1
    /\ malformed' = FALSE
    /\ UNCHANGED <<kind, lastGood, dropped, symbol, visibility, paginatedData, data, dispatch,
                   cancelled, hiddenClose>>

Mount == \E throws \in BOOLEAN : MountT(throws)

\* The route parameter changes: React runs the cleanup of the previous
\* effect run and then the effect body again, in one commit.
SymbolChangeT(s2, throws) ==
    /\ kind # "table" /\ phase = "mounted" /\ dispatch = 0
    /\ run < MaxRuns
    /\ s2 # symbol
    /\ LET c1 == cleanup(Cur)
           c2 == connectWebSocket([c1 EXCEPT !.isUnmounting = FALSE],
                                  s2, run + 1, throws)
       IN  WithinBounds(c2) /\ Commit(c2)
    /\ symbol' = s2
    /\ run' = run + 1
    /\ cancelled' = IF PendingTimers # {} THEN cancelled \cup {run} ELSE cancelled
    /\ malformed' = FALSE
    /\ UNCHANGED <<kind, lastGood, dropped, phase, visibility, paginatedData, data, dispatch,
                   hiddenClose>>

SymbolChange == \E s2 \in Symbols : \E throws \in BOOLEAN : SymbolChangeT(s2, throws)

\* The component unmounts: React runs the cleanup of the latest effect run.
Unmount ==
    /\ phase = "mounted" /\ dispatch = 0
    /\ Commit(cleanup(Cur))
    /\ phase' = "unmounted"
    /\ cancelled' = IF PendingTimers # {} THEN cancelled \cup {run} ELSE cancelled
    /\ malformed' = FALSE
    /\ UNCHANGED <<kind, lastGood, dropped, symbol, run, visibility, paginatedData, data, dispatch,
                   hiddenClose>>

\* handleVisibilityChange, called with the new document.visibilityState.
handleVisibilityChange(c, vis, throws) ==
    IF vis = "visible" THEN connectWebSocket(c, symbol, run, throws) ELSE c

\* document visibilitychange; the listener is registered only between an
\* effect run and its cleanup.
VisibilityChangeT(throws) ==
    /\ dispatch = 0
    /\ visibility' = (IF visibility = "visible" THEN "hidden" ELSE "visible")
    /\ LET c == IF phase = "mounted"
                THEN handleVisibilityChange(Cur, visibility', throws)
                ELSE Cur
       IN  WithinBounds(c) /\ Commit(c)
    /\ hiddenClose' = (IF hiddenClose = "armed" /\ visibility' = "visible"
                       THEN "resumed" ELSE "none")
    /\ malformed' = FALSE
    /\ UNCHANGED <<kind, lastGood, dropped, phase, symbol, run, paginatedData, data, dispatch, cancelled>>

VisibilityChange == \E throws \in BOOLEAN : VisibilityChangeT(throws)

\* Time passes while no pending timer is due.
Tick ==
    /\ dispatch = 0
    /\ PendingTimers # {}
    /\ \A t \in PendingTimers : timers[t].remaining >= TickMs
    /\ timers' = [t \in DOMAIN timers |->
                    IF timers[t].state = "pending"
                    THEN [timers[t] EXCEPT !.remaining = @ - TickMs]
                    ELSE timers[t]]
    /\ malformed' = FALSE
    /\ UNCHANGED <<kind, lastGood, dropped, phase, symbol, run, visibility, sockets, wsRef,
                   reconnectTimeoutRef, isUnmounting, isConnected, error,
                   paginatedData, data, dispatch, cancelled, hiddenClose>>

\* The due timer t runs its callback, the connectWebSocket of its closure.
TimerFireT(t, throws) ==
    /\ dispatch = 0
    /\ t \in PendingTimers
    /\ timers[t].remaining = 0
    /\ LET c0 == [Cur EXCEPT !.timers[t].state = "fired"]
           c  == connectWebSocket(c0, timers[t].sym, timers[t].run, throws)
       IN  WithinBounds(c) /\ Commit(c)
    /\ malformed' = FALSE
    /\ UNCHANGED <<kind, lastGood, dropped, phase, symbol, run, visibility, paginatedData, data,
                   dispatch, cancelled, hiddenClose>>

TimerFire == \E t \in DOMAIN timers : \E throws \in BOOLEAN : TimerFireT(t, throws)

\* The connection of socket k is established: readyState becomes OPEN and
\* open fires.
SocketOpenK(k) ==
    /\ dispatch = 0
    /\ sockets[k].readyState = "CONNECTING"
    /\ Commit(onopen([Cur EXCEPT !.sockets[k].readyState = "OPEN",
                                 !.sockets[k].established = TRUE], k))
    /\ malformed' = FALSE
    /\ UNCHANGED <<kind, lastGood, dropped, phase, symbol, run, visibility, paginatedData, data,
                   dispatch, cancelled, hiddenClose>>

SocketOpen == \E k \in DOMAIN sockets : SocketOpenK(k)

\* The message raw arrives on the OPEN socket k.
SocketMessageK(k, raw) ==
    /\ dispatch = 0
    /\ sockets[k].readyState = "OPEN"
    /\ paginatedData' = IF kind = "table"
                        THEN onmessageTable(paginatedData, raw)
                        ELSE paginatedData
    /\ data' = IF kind = "detail" THEN onmessageDetail(data, raw)
               ELSE IF kind = "detailPage" THEN onmessageDetailPage(data, raw)
               ELSE data
    /\ lastGood' = IF phase = "mounted" /\ raw.ok
                      /\ (kind = "table" \/ Len(raw.value) > 0)
                   THEN raw.value ELSE lastGood
    /\ malformed' = (~isUnmounting /\ ~raw.ok)
    /\ UNCHANGED <<kind, dropped, phase, symbol, run, visibility, sockets, timers, wsRef,
                   reconnectTimeoutRef, isUnmounting, isConnected, error,
                   dispatch, cancelled, hiddenClose>>

SocketMessage ==
    \E k \in DOMAIN sockets : \E raw \in RawMessages(sockets[k]) : SocketMessageK(k, raw)

\* The connection of socket k fails (never established, lost, or closed by
\* the client before it was established): readyState becomes CLOSED, error
\* fires and close follows in the same task.
SocketFailK(k) ==
    /\ dispatch = 0
    /\ sockets[k].readyState \in {"CONNECTING", "OPEN", "CLOSING"}
    /\ Commit(onerror([Cur EXCEPT !.sockets[k].readyState = "CLOSED"], k))
    /\ dispatch' = k
    /\ malformed' = FALSE
    /\ UNCHANGED <<kind, lastGood, dropped, phase, symbol, run, visibility, paginatedData, data,
                   cancelled, hiddenClose>>

SocketFail == \E k \in DOMAIN sockets : SocketFailK(k)

\* The close event (wasClean = false) that follows the error event of a
\* failed connection.
SocketCloseAfterError ==
    /\ dispatch # 0
    /\ LET c == onclose(Cur, dispatch, FALSE)
       IN  WithinBounds(c) /\ Commit(c)
    /\ dispatch' = 0
    /\ hiddenClose' = (IF visibility = "hidden" THEN "armed" ELSE hiddenClose)
    /\ malformed' = FALSE
    /\ UNCHANGED <<kind, lastGood, dropped, phase, symbol, run, visibility, paginatedData, data,
                   cancelled>>

\* A close that also resets the view data to its initial value.
SocketCloseK_clearsData(k, wasClean) ==
    /\ dispatch = 0
    /\ sockets[k].readyState \in {"OPEN", "CLOSING"}
    /\ sockets[k].established
    /\ LET c == onclose([Cur EXCEPT !.sockets[k].readyState = "CLOSED",
                                    !.sockets[k].wasClean = wasClean],
                        k, wasClean)
       IN  WithinBounds(c) /\ Commit(c)
    /\ hiddenClose' = (IF ~wasClean /\ visibility = "hidden" THEN "armed" ELSE hiddenClose)
    /\ malformed' = FALSE
    /\ UNCHANGED <<kind, lastGood, dropped, phase, symbol, run, visibility, dispatch, cancelled>>
    /\ paginatedData' = InitialPaginatedData
    /\ data' = <<>>

\* The connection of socket k ends without an error event: cleanly after a
\* closing handshake, or uncleanly; only an established connection can.
SocketCloseK(k, wasClean) ==
    /\ dispatch = 0
    /\ sockets[k].readyState \in {"OPEN", "CLOSING"}
    /\ sockets[k].established
    /\ LET c == onclose([Cur EXCEPT !.sockets[k].readyState = "CLOSED",
                                    !.sockets[k].wasClean = wasClean],
                        k, wasClean)
       IN  WithinBounds(c) /\ Commit(c)
    /\ hiddenClose' = (IF ~wasClean /\ visibility = "hidden" THEN "armed" ELSE hiddenClose)
    /\ malformed' = FALSE
    /\ UNCHANGED <<kind, lastGood, dropped, phase, symbol, run, visibility, paginatedData, data,
                   dispatch, cancelled>>

SocketClose ==
    \E k \in DOMAIN sockets : \E wasClean \in BOOLEAN : SocketCloseK(k, wasClean)

\* The user picks page p in the Pagination control, which is rendered while
\* the table is mounted and has more than one page.
PageChangeP(p) ==
    /\ kind = "table" /\ phase = "mounted" /\ dispatch = 0
    /\ totalPages(paginatedData) > 1
    /\ p \in 1..totalPages(paginatedData)
    /\ LET c == handlePageChange(Cur, p)
       IN  /\ RequestsSent(c.sockets) <= MaxRequests
           /\ Commit(c)
    /\ dropped' = IF wsRef # 0 /\ sockets[wsRef].readyState = "OPEN" THEN 0 ELSE p
    /\ malformed' = FALSE
    /\ UNCHANGED <<kind, lastGood, phase, symbol, run, visibility, paginatedData,
                   data, dispatch, cancelled, hiddenClose>>

PageChange == \E p \in 1..totalPages(paginatedData) : PageChangeP(p)

Next ==
    \/ Mount
    \/ PageChange
    \/ SymbolChange
    \/ Unmount
    \/ VisibilityChange
    \/ Tick
    \/ TimerFire
    \/ SocketOpen
    \/ SocketMessage
    \/ SocketFail
    \/ SocketCloseAfterError
    \/ SocketClose

Spec == Init /\ [][Next]_vars

\* ------------------------------------------------------------ typing
TypeOK ==
    /\ kind \in Kinds
    /\ malformed \in BOOLEAN
    /\ phase \in {"init", "mounted", "unmounted"}
    /\ run \in 0..MaxRuns
    /\ visibility \in {"visible", "hidden"}
    /\ Len(sockets) <= MaxSockets
    /\ Len(timers) <= MaxTimers
    /\ wsRef \in 0..Len(sockets)
    /\ reconnectTimeoutRef \in 0..Len(timers)
    /\ \A k \in DOMAIN sockets : sockets[k].readyState \in ReadyStates
    /\ \A t \in DOMAIN timers : timers[t].remaining \in 0..ReconnectDelay
    /\ dispatch \in 0..Len(sockets)

\* ------------------------------------------------------------ shared notions
\* Effect runs whose cleanup has run (the controllers that were shut down).
ShutRuns == IF phase = "unmounted" THEN 1..run ELSE 1..(run - 1)

\* The step constructs a WebSocket.
SocketCreated == Len(sockets') > Len(sockets)

\* The step sets a timer.
TimerScheduled == Len(timers') > Len(timers)

\* The channel the controller references is Connecting or Open.
ChannelActive ==
    wsRef # 0 /\ sockets[wsRef].readyState \in {"CONNECTING", "OPEN"}

\* ------------------------------------------------------------ C1
\* C1: while the referenced channel is Connecting or Open, a connect call
\* of the same effect run (from a visibility change or a timer) constructs
\* no new WebSocket and does not close the referenced one.
C1_ConnectIdempotent ==
    [][ (ChannelActive /\ run' = run /\ phase' = phase)
        => (~SocketCreated /\ wsRef' = wsRef /\ sockets'[wsRef].readyState # "CLOSING") ]_vars

\* ------------------------------------------------------------ C2
\* C2: once an effect run was cleaned up while a retry timer was pending,
\* no WebSocket is ever constructed by the connectWebSocket of that run.
C2_NoConnectAfterShutdown ==
    [][ SocketCreated => sockets'[Len(sockets')].run \notin cancelled' ]_vars

\* ------------------------------------------------------------ C3
\* C3: in the detail view every WebSocket constructed targets the current
\* symbol, the candle series only ever changes to candles of the current
\* symbol, and the error and close events of a socket opened for another
\* symbol change neither the live flag nor the timers.
StaleSocketEvent ==
    \/ \E k \in DOMAIN sockets : sockets[k].sym # symbol /\ SocketFailK(k)
    \/ \E k \in DOMAIN sockets : \E w \in BOOLEAN :
           sockets[k].sym # symbol /\ SocketCloseK(k, w)
    \/ dispatch # 0 /\ sockets[dispatch].sym # symbol /\ SocketCloseAfterError

C3_IdentityIsolation ==
    [][ kind # "table" =>
          /\ (SocketCreated => sockets'[Len(sockets')].url = Endpoint(kind, symbol'))
          /\ (data' # data => \A i \in DOMAIN data' : data'[i].symbol = symbol')
          /\ (StaleSocketEvent =>
                 /\ isConnected' = isConnected
                 /\ timers' = timers
                 /\ reconnectTimeoutRef' = reconnectTimeoutRef) ]_vars

\* ------------------------------------------------------------ C4
\* The step delivers a close event with wasClean = false.
UncleanCloseStep ==
    \/ dispatch # 0 /\ SocketCloseAfterError
    \/ \E k \in DOMAIN sockets : SocketCloseK(k, FALSE)

\* The step is the first change to visible after an unclean close that
\* happened while the tab was hidden, in a mounted view.
ResumeStep ==
    /\ hiddenClose = "armed" /\ phase = "mounted"
    /\ visibility = "hidden" /\ visibility' = "visible"

InitD == Init /\ visibility = "visible"

MountD == MountT(FALSE)

TimerFireD == \E t \in DOMAIN timers : TimerFireT(t, FALSE)

NextD ==
    \/ MountD
    \/ PageChange
    \/ Tick
    \/ TimerFireD
    \/ SocketOpen
    \/ SocketMessage
    \/ SocketFail
    \/ SocketCloseAfterError
    \/ SocketClose

SpecD == InitD /\ [][NextD]_vars

\* The step runs the callback of a pending timer.
TimerFiredStep ==
    \E t \in DOMAIN timers : timers[t].state = "pending" /\ timers'[t].state = "fired"

C6_OnePendingTimer == Cardinality(PendingTimers) <= 1

\* ------------------------------------------------------------ C7
\* The referenced channel of the mounted view was closed cleanly.
CleanTerminal ==
    /\ phase = "mounted" /\ wsRef # 0
    /\ sockets[wsRef].readyState = "CLOSED" /\ sockets[wsRef].wasClean

CleanCloseStep == \E k \in DOMAIN sockets : SocketCloseK(k, TRUE)

\* C7 as stated: a clean close sets no timer, and while the referenced
\* channel is cleanly closed the controller constructs no WebSocket for
\* the same identity, a later visibility change included.
C7_CleanCloseTerminal ==
    [][ /\ (CleanCloseStep => ~TimerScheduled)
        /\ (CleanTerminal /\ symbol' = symbol /\ phase' = phase => ~SocketCreated) ]_vars

\* C7 amended: the handler of a clean close sets no timer, leaves the
\* timer and channel references alone and constructs nothing; after it
\* the controller constructs a WebSocket for the same identity only on a
\* change to visible or when a timer that was already pending fires.
C7_CleanCloseNoRetry ==
    [][ /\ (CleanCloseStep =>
               /\ timers' = timers
               /\ reconnectTimeoutRef' = reconnectTimeoutRef
               /\ wsRef' = wsRef
               /\ ~SocketCreated)
        /\ (CleanTerminal /\ symbol' = symbol /\ phase' = phase /\ SocketCreated =>
               \/ visibility = "hidden" /\ visibility' = "visible"
               \/ TimerFiredStep) ]_vars

\* Witness of C7: a channel was closed cleanly, no timer was ever set, and
\* the controller nevertheless references a newer channel.
C7_Witness ==
    /\ phase = "mounted" /\ timers = <<>>
    /\ wsRef > 1 /\ sockets[wsRef].readyState = "CONNECTING"
    /\ sockets[wsRef - 1].readyState = "CLOSED" /\ sockets[wsRef - 1].wasClean

\* ------------------------------------------------------------ C8
\* The step ran connectWebSocket up to the constructor, which threw.
ConstructionFailedStep ==
    /\ \/ MountT(TRUE)
       \/ \E s2 \in Symbols : SymbolChangeT(s2, TRUE)
       \/ VisibilityChangeT(TRUE) /\ phase = "mounted" /\ visibility' = "visible"
       \/ \E t \in DOMAIN timers : TimerFireT(t, TRUE)
    /\ ~isUnmounting' /\ wsRef' = 0 /\ ~SocketCreated

\* C8: a construction failure in a visible, mounted view sets a retry
\* timer of 5000 ms, as an unclean close does.
C8_ConstructionFailureRetried ==
    [][ ConstructionFailedStep /\ visibility' = "visible" =>
           /\ TimerScheduled
           /\ timers'[Len(timers')].state = "pending"
           /\ timers'[Len(timers')].remaining = ReconnectDelay ]_vars

\* ------------------------------------------------------------ C9
\* C9: no timer set by a shut-down effect run is pending and no WebSocket
\* constructed by one is Connecting or Open.
C9_ScopedResources ==
    /\ \A t \in DOMAIN timers :
          timers[t].run \in ShutRuns => timers[t].state # "pending"
    /\ \A k \in DOMAIN sockets :
          sockets[k].run \in ShutRuns => sockets[k].readyState \notin {"CONNECTING", "OPEN"}

\* ------------------------------------------------------------ C10
\* The step is a callback of a socket or timer of a shut-down effect run
\* (its visibility listener is removed by the cleanup).
ShutCallbackStep ==
    \/ \E k \in DOMAIN sockets :
         /\ sockets[k].run \in ShutRuns
         /\ \/ SocketOpenK(k)
            \/ SocketFailK(k)
            \/ \E w \in BOOLEAN : SocketCloseK(k, w)
            \/ \E raw \in RawMessages(sockets[k]) : SocketMessageK(k, raw)
    \/ dispatch # 0 /\ sockets[dispatch].run \in ShutRuns /\ SocketCloseAfterError
    \/ \E t \in DOMAIN timers : \E throws \in BOOLEAN :
         timers[t].run \in ShutRuns /\ TimerFireT(t, throws)

\* C10: a callback of a shut-down effect run changes neither the live
\* flag, the error text, the view data nor the channel and timer
\* references, sets no timer and constructs no WebSocket.
C10_NoChangeAfterShutdown ==
    [][ ShutCallbackStep =>
           /\ UNCHANGED <<isConnected, error, paginatedData, data, wsRef,
                          reconnectTimeoutRef>>
           /\ ~TimerScheduled
           /\ ~SocketCreated ]_vars

\* ------------------------------------------------------------ C11
\* C11: the table state of a mounted table is the last payload that was
\* decoded from a message (the initial state before any), whole.
C11_TableIsLastPayload ==
    kind = "table" /\ phase = "mounted" => paginatedData = lastGood

\* Witness of C11: the table shows the second payload on a channel on
\* which the user has requested a page, which takes an earlier payload.
C11_Witness ==
    /\ kind = "table" /\ phase = "mounted"
    /\ paginatedData \in TablePayloads /\ paginatedData.page = 2
    /\ wsRef # 0 /\ sockets[wsRef].readyState = "OPEN"
    /\ Len(sockets[wsRef].sent) = 2

\* ------------------------------------------------------------ C12
\* C12: the stored series of a mounted detail view is sorted ascending by
\* event_time and is the sorted last non-empty batch (empty before any);
\* an empty batch leaves it unchanged.
C12_SeriesIsSortedLastBatch ==
    kind # "table" /\ phase = "mounted" =>
        /\ \A i \in 1..(Len(data) - 1) : data[i].event_time <= data[i + 1].event_time
        /\ data = SortByEventTime(lastGood)

\* ------------------------------------------------------------ C13
\* The step hands a message that does not parse to onmessage.
MalformedStep == \E k \in DOMAIN sockets : SocketMessageK(k, Garbage)

\* C13: a message that does not parse changes neither the view data, the
\* live flag, the error text, the channel and timer references nor any
\* channel or timer: nothing is closed, constructed or scheduled.
C13_MalformedDiscarded ==
    [][ MalformedStep =>
           UNCHANGED <<paginatedData, data, isConnected, error, wsRef,
                       reconnectTimeoutRef, sockets, timers>> ]_vars

\* Witness of C13: a live detail view that shows a series has just been
\* handed a message that does not parse.
C13_Witness ==
    /\ malformed /\ kind = "detail" /\ phase = "mounted"
    /\ data # <<>> /\ isConnected
    /\ wsRef # 0 /\ sockets[wsRef].readyState = "OPEN"

\* ------------------------------------------------------------ C14
\* The referenced channel is open.
ChannelOpen == wsRef # 0 /\ sockets[wsRef].readyState = "OPEN"

\* C14: a page change to p while the channel is open appends exactly the
\* request {page: p, per_page: the page size on display} to what was sent
\* on the referenced channel, and changes no other channel, no state of a
\* channel, no timer and no reference.
C14_PageChangeSendsOne ==
    [][ \A p \in 1..totalPages(paginatedData) :
           PageChangeP(p) /\ ChannelOpen =>
              /\ sockets' = [sockets EXCEPT ![wsRef].sent =
                                Append(@, [page |-> p, per_page |-> paginatedData.per_page])]
              /\ UNCHANGED <<timers, wsRef, reconnectTimeoutRef, isConnected, error>> ]_vars

\* Witness of C14: page 2 was requested with a page size the server set,
\* on the first channel, and no timer was ever set.
C14_Witness ==
    /\ kind = "table" /\ phase = "mounted" /\ Len(sockets) = 1 /\ timers = <<>>
    /\ ChannelOpen /\ Len(sockets[1].sent) = 2
    /\ sockets[1].sent[2] = [page |-> 2, per_page |-> 20]

\* ------------------------------------------------------------ C15
\* C15: a page change while the channel is not open (none, CONNECTING,
\* CLOSING or CLOSED) sends nothing and changes neither view data, live
\* flag, error text, references, channels nor timers; and a channel that
\* opens after a request was dropped is sent the request of onopen alone.
C15_PageChangeDropped ==
    [][ /\ \A p \in 1..totalPages(paginatedData) :
              PageChangeP(p) /\ ~ChannelOpen =>
                 UNCHANGED <<sockets, timers, wsRef, reconnectTimeoutRef,
                             isConnected, error, paginatedData, data>>
        /\ \A k \in DOMAIN sockets :
              SocketOpenK(k) /\ dropped # 0 =>
                 sockets'[k].sent = <<[page |-> InitialPage, per_page |-> InitialPerPage]>>
      ]_vars

\* Witness of C15: a request for page 2 was dropped and the channel that
\* opened afterwards was sent the request of onopen alone.
C15_Witness ==
    /\ kind = "table" /\ phase = "mounted" /\ dropped = 2
    /\ ChannelOpen
    /\ sockets[wsRef].sent = <<[page |-> InitialPage, per_page |-> InitialPerPage]>>

\* ------------------------------------------------------------ C16
\* The page and page size the user requested last: the last request that
\* handlePageChange sent on the newest channel it sent one on, and the
\* initial page and page size before any.
RECURSIVE LastUserRequest(_)
LastUserRequest(ss) ==
    IF ss = <<>> THEN [page |-> InitialPage, per_page |-> InitialPerPage]
    ELSE IF Len(ss[Len(ss)].sent) > 1
         THEN ss[Len(ss)].sent[Len(ss[Len(ss)].sent)]
         ELSE LastUserRequest(SubSeq(ss, 1, Len(ss) - 1))

\* C16: when a table channel opens the client sends exactly one request,
\* for the page and page size the user requested last; when a channel of
\* a detail view opens the client sends nothing.
C16_OpenSendsLastRequested ==
    [][ \A k \in DOMAIN sockets :
           SocketOpenK(k) /\ ~isUnmounting =>
              sockets'[k].sent = IF kind = "table"
                                 THEN <<LastUserRequest(sockets)>>
                                 ELSE <<>> ]_vars

\* ------------------------------------------------------------ C17
\* The step delivers an error event to a handler that is not shut off.
ErrorStep == ~isUnmounting /\ \E k \in DOMAIN sockets : SocketFailK(k)

\* C17 as stated: an error event records the error text and changes
\* nothing else: the live flag is unchanged and no timer is set.
C17_ErrorRecordsOnly ==
    [][ ErrorStep =>
           /\ error' = ErrTransport(kind)
           /\ isConnected' = isConnected
           /\ ~TimerScheduled ]_vars

\* C17 amended: an error event records the error text and clears the live
\* flag; it sets no timer, constructs nothing and leaves the references
\* and the view data alone; a timer is set only by a step that delivers a
\* close event.
C17_ErrorRecordsAndClears ==
    [][ /\ (ErrorStep =>
               /\ error' = ErrTransport(kind)
               /\ isConnected' = FALSE
               /\ UNCHANGED <<timers, reconnectTimeoutRef, wsRef, paginatedData, data>>
               /\ ~SocketCreated)
        /\ (TimerScheduled => UncleanCloseStep) ]_vars

\* Witness of C17: the channel of a live view has just failed; the error
\* is recorded, the live flag is cleared and no timer is pending.
C17_Witness ==
    /\ phase = "mounted" /\ visibility = "visible"
    /\ dispatch # 0 /\ dispatch = wsRef /\ sockets[dispatch].established
    /\ error = ErrTransport(kind) /\ ~isConnected
    /\ PendingTimers = {}

\* ------------------------------------------------------------ C18
\* The step delivers an event of a channel that connect has replaced by a
\* newer one, to the view that is still mounted on the same identity.
SupersededEventStep ==
    /\ phase = "mounted"
    /\ \E k \in DOMAIN sockets :
          /\ k # wsRef /\ k < Len(sockets)
          /\ sockets[k].run = run
          /\ \/ SocketOpenK(k)
             \/ SocketFailK(k)
             \/ dispatch = k /\ SocketCloseAfterError
             \/ \E w \in BOOLEAN : SocketCloseK(k, w)
             \/ \E raw \in RawMessages(sockets[k]) : SocketMessageK(k, raw)

\* C18: an event of a replaced channel changes neither the live flag, the
\* error text nor the view data and sets no timer.
C18_StaleCallbacksGuarded ==
    [][ SupersededEventStep =>
           /\ UNCHANGED <<isConnected, error, paginatedData, data>>
           /\ ~TimerScheduled ]_vars

\* ------------------------------------------------------------ C19
\* The channels that are Connecting or Open.
ActiveChannels ==
    {k \in DOMAIN sockets : sockets[k].readyState \in {"CONNECTING", "OPEN"}}

\* C19: at most one channel is Connecting or Open, and it is the one the
\* controller references.
C19_OneActiveChannel ==
    /\ Cardinality(ActiveChannels) <= 1
    /\ \A k \in ActiveChannels : k = wsRef

\* Witness of C19: connect has replaced a channel that was Connecting; the
\* old one is Closing and only the new one is Connecting.
C19_Witness ==
    /\ Len(sockets) >= 2 /\ wsRef = Len(sockets)
    /\ sockets[wsRef].readyState = "CONNECTING"
    /\ sockets[wsRef - 1].readyState = "CLOSING"
    /\ ~sockets[wsRef - 1].established

\* ------------------------------------------------------------ C20
\* The step hands onmessage a message that parses.
DecodedMessageStep ==
    \E k \in DOMAIN sockets : \E raw \in RawMessages(sockets[k]) :
        raw.ok /\ SocketMessageK(k, raw)

\* C20: the table's page payload and the detail view's series change only
\* in a step that hands onmessage a message that parses; error and close
\* events, construction failures, timers and visibility changes leave
\* them unchanged.
C20_SnapshotSurvives ==
    [][ paginatedData' # paginatedData \/ data' # data => DecodedMessageStep ]_vars

\* Witness of C20: the channel failed and closed, the retry timer fired,
\* the view is disconnected, and the table still shows the payload.
C20_Witness ==
    /\ kind = "table" /\ phase = "mounted"
    /\ paginatedData \in TablePayloads
    /\ ~isConnected /\ error = ErrTransport(kind)
    /\ sockets[1].readyState = "CLOSED" /\ sockets[1].established
    /\ \E t \in DOMAIN timers : timers[t].state = "fired"

\* ------------------------------------------------------------ C21
\* The step runs connectWebSocket with a WebSocket constructor that throws.
ThrowingStep ==
    \/ MountT(TRUE)
    \/ \E s2 \in Symbols : SymbolChangeT(s2, TRUE)
    \/ VisibilityChangeT(TRUE)
    \/ \E t \in DOMAIN timers : TimerFireT(t, TRUE)

\* C21: an open event handled while isUnmounting is false sets the live
\* flag and clears the error text; the error text becomes non-empty, or
\* another text, only in a step that delivers an error event or in which
\* the constructor throws.
C21_OpenClearsError ==
    [][ /\ \A k \in DOMAIN sockets :
              SocketOpenK(k) /\ ~isUnmounting => isConnected' /\ error' = ""
        /\ (error' # error /\ error' # "" =>
               (\E k \in DOMAIN sockets : SocketFailK(k)) \/ ThrowingStep) ]_vars

\* Witness of C21: the first channel failed before it was established,
\* which recorded an error; the second channel opened and the error text
\* is empty again.
C21_Witness ==
    /\ phase = "mounted" /\ Len(sockets) = 2
    /\ sockets[1].readyState = "CLOSED" /\ ~sockets[1].established
    /\ wsRef = 2 /\ sockets[2].readyState = "OPEN"
    /\ isConnected /\ error = ""

\* ------------------------------------------------------------ C22
\* C22: a mounted view constructs no WebSocket for the identity it is on
\* while the tab is hidden, whatever set off the connect.
C22_NoReconnectWhileHidden ==
    [][ SocketCreated /\ phase = "mounted" /\ symbol' = symbol =>
           visibility' = "visible" ]_vars

\* ------------------------------------------------------------ C23
\* C23: in a mounted view the live flag is true only if the referenced
\* channel is open, and while the referenced channel stays open after its
\* open event the live flag is not set to false.
C23_LiveFlagAgrees ==
    [][ /\ (phase' = "mounted" /\ isConnected' =>
               wsRef' # 0 /\ sockets'[wsRef'].readyState = "OPEN")
        /\ (phase' = "mounted" /\ ChannelOpen /\ isConnected
               /\ wsRef' = wsRef /\ sockets'[wsRef].readyState = "OPEN" =>
               isConnected') ]_vars

\* ------------------------------------------------------------ C24
\* Scenario L: the tab stays visible and the view stays mounted on one
\* identity; the WebSocket constructor may throw and the transport may
\* open, deliver, fail and close in any order.  The event loop runs what
\* is due: the effect after the first render, the passing of time, a due
\* timer, and the close event that follows an error event.
NextL ==
    \/ Mount
    \/ PageChange
    \/ Tick
    \/ TimerFire
    \/ SocketOpen
    \/ SocketMessage
    \/ SocketFail
    \/ SocketCloseAfterError
    \/ SocketClose

SpecL ==
    /\ InitD /\ [][NextL]_vars
    /\ WF_vars(Mount) /\ WF_vars(Tick) /\ WF_vars(TimerFire)
    /\ WF_vars(SocketCloseAfterError)

\* The last connection attempt of the mounted view failed or its channel
\* closed uncleanly, and the handlers of that failure have run.
RecoveryDue ==
    /\ phase = "mounted" /\ dispatch = 0
    /\ \/ wsRef = 0 /\ error = ErrConstruct(kind)
       \/ /\ wsRef # 0 /\ sockets[wsRef].readyState = "CLOSED"
          /\ ~sockets[wsRef].wasClean

\* C24: in scenario L, whenever a connection attempt has failed or a
\* channel has closed uncleanly, a new WebSocket is eventually
\* constructed (as long as the bound on constructions allows one).
C24_RecoveryLive ==
    \A n \in 0..(MaxSockets - 1) :
        (RecoveryDue /\ Len(sockets) = n) ~> (Len(sockets) > n)
====
